---- MODULE Spec2Model ----
(***************************************************************************)
(* roundtrip_tester (src/roundtrip_tester/src/lib.rs): the foreign entry   *)
(* point roundtrip_test_case, the dispatch run_test, the oracle run_case   *)
(* and the borsh codec of TestCase0 derived at lib.rs:25-31.               *)
(*                                                                         *)
(* Values.  A byte is 0..255.  A String is its UTF-8 byte sequence.  A     *)
(* u128 is eight 16-bit limbs, least significant first, a u32 is two, and  *)
(* an f64 is the four 16-bit limbs of its IEEE-754 bit pattern, least      *)
(* significant first (TLC integers are 32 bits wide).  An i32 and a usize  *)
(* that is the length of a sequence are integers.                          *)
(***************************************************************************)
EXTENDS Integers, Sequences, FiniteSets

\* ------------------------------------------------------------------ bounds
\* Addresses the allocator can hand out (the process's memory).
MaxAddr == 2
\* Threads that may call the entry point at the same time (SpecConc).
NThreads == 2
\* Longest run of extra bytes appended to a valid encoding.
MaxTrail == 2

\* ------------------------------------------------------ integers and bytes
U8 == 0..255

\* x * 10 + c on little-endian 16-bit limbs, from limb i on (overflow past the
\* last limb is dropped, as in a fixed-width integer).
RECURSIVE MulAddFrom(_, _, _, _)
MulAddFrom(l, i, m, c) ==
    IF i > Len(l) THEN <<>>
    ELSE LET x == l[i] * m + c
         IN <<x % 65536>> \o MulAddFrom(l, i + 1, m, x \div 65536)

\* The u128 a decimal literal denotes, digit by digit.
RECURSIVE u128_from_decimal(_, _, _)
u128_from_decimal(digits, i, acc) ==
    IF i > Len(digits) THEN acc
    ELSE u128_from_decimal(digits, i + 1, MulAddFrom(acc, 1, 10, digits[i]))

U128_ZERO == <<0, 0, 0, 0, 0, 0, 0, 0>>

\* ----------------------------------------------------------- f64 (IEEE-754)
\* f64::is_nan: exponent bits all ones and a mantissa that is not zero.
f64_is_nan(x) ==
    /\ (x[4] \div 16) % 2048 = 2047
    /\ (x[4] % 16 # 0 \/ x[3] # 0 \/ x[2] # 0 \/ x[1] # 0)

f64_is_zero(x) == x[1] = 0 /\ x[2] = 0 /\ x[3] = 0 /\ x[4] % 32768 = 0

\* f64's PartialEq, IEEE comparison: a NaN equals nothing and +0.0 == -0.0;
\* any other two values are equal exactly when their bits are.
f64_eq(a, b) ==
    /\ ~f64_is_nan(a)
    /\ ~f64_is_nan(b)
    /\ (a = b \/ (f64_is_zero(a) /\ f64_is_zero(b)))

\* ------------------------------------------------------- the TestCase0 type
\* A comparison that leaves the last field out.
TestCase0_eq_without_data(a, b) ==
    /\ a.name = b.name
    /\ a.age = b.age
    /\ f64_eq(a.prob, b.prob)

\* derive(PartialEq) on TestCase0: field by field, in declaration order.
TestCase0_eq(a, b) ==
    /\ a.name = b.name
    /\ a.age = b.age
    /\ f64_eq(a.prob, b.prob)
    /\ a.data = b.data

\* The canonical value run_test builds for id 0:
\*   name "ccccc", age 541212312321534534, prob 0.69 (0x3FE6147AE147AE14),
\*   data [31, 69].
TestCase0_canonical ==
    [name |-> <<99, 99, 99, 99, 99>>,
     age  |-> u128_from_decimal(
                  <<5, 4, 1, 2, 1, 2, 3, 1, 2, 3, 2, 1, 5, 3, 4, 5, 3, 4>>,
                  1, U128_ZERO),
     prob |-> <<44564, 57671, 5242, 16358>>,
     data |-> <<31, 69>>]

\* ------------------------------------------------------ borsh: the decoder
\* A reader's result: a value and the bytes left, or an error.
Ok(v, rest) == [ok |-> TRUE, val |-> <<v>>, rest |-> rest, err |-> ""]
Err(e) == [ok |-> FALSE, val |-> <<>>, rest |-> <<>>, err |-> e]

\* Read::read_exact on a slice: n bytes or "Unexpected length of input".
read_exact(buf, n) ==
    IF Len(buf) < n THEN Err("UnexpectedLengthOfInput")
    ELSE Ok(SubSeq(buf, 1, n), SubSeq(buf, n + 1, Len(buf)))

\* u32::from_le_bytes, as limbs: every value 0 .. 2^32 - 1 exactly.
u32_from_le_bytes(b) == <<b[1] + 256 * b[2], b[3] + 256 * b[4]>>

\* The u32 of a length m (u32::try_from(len), for a length that fits).
u32_of_int(m) == <<m % 65536, m \div 65536>>

\* n > m, for a u32 n and a length m.
u32_exceeds(n, m) ==
    \/ n[2] > m \div 65536
    \/ n[2] = m \div 65536 /\ n[1] > m % 65536

\* `n as usize`, for a u32 n that is no more than a length.
u32_as_int(n) == n[1] + 65536 * n[2]

u32_deserialize(buf) ==
    LET r == read_exact(buf, 4)
    IN IF ~r.ok THEN r ELSE Ok(u32_from_le_bytes(r.val[1]), r.rest)

\* i32::from_le_bytes: two's complement.
i32_from_le_bytes(b) ==
    b[1] + 256 * b[2] + 65536 * b[3]
        + 16777216 * (IF b[4] >= 128 THEN b[4] - 256 ELSE b[4])

\* u128::from_le_bytes, as limbs.
u128_from_le_bytes(b) == [k \in 1..8 |-> b[2 * k - 1] + 256 * b[2 * k]]

u128_deserialize(buf) ==
    LET r == read_exact(buf, 16)
    IN IF ~r.ok THEN r ELSE Ok(u128_from_le_bytes(r.val[1]), r.rest)

\* f64::from_bits(u64::from_le_bytes), as limbs; borsh refuses a NaN.
f64_from_le_bytes(b) == [k \in 1..4 |-> b[2 * k - 1] + 256 * b[2 * k]]

f64_deserialize(buf) ==
    LET r == read_exact(buf, 8)
    IN IF ~r.ok THEN r
       ELSE LET x == f64_from_le_bytes(r.val[1])
            IN IF f64_is_nan(x) THEN Err("NaN") ELSE Ok(x, r.rest)

\* A continuation byte 10xxxxxx at s[i], within lo..hi.
utf8_cont(s, i, lo, hi) == i <= Len(s) /\ s[i] >= lo /\ s[i] <= hi

\* core::str::from_utf8's validation, from position i on: no stray
\* continuation bytes, no overlong forms, no surrogates, nothing past U+10FFFF.
RECURSIVE utf8_valid_from(_, _)
utf8_valid_from(s, i) ==
    IF i > Len(s) THEN TRUE
    ELSE LET b == s[i]
         IN IF b < 128 THEN utf8_valid_from(s, i + 1)
            ELSE IF b >= 194 /\ b <= 223
                 THEN utf8_cont(s, i + 1, 128, 191) /\ utf8_valid_from(s, i + 2)
            ELSE IF b >= 224 /\ b <= 239
                 THEN /\ utf8_cont(s, i + 1,
                                   IF b = 224 THEN 160 ELSE 128,
                                   IF b = 237 THEN 159 ELSE 191)
                      /\ utf8_cont(s, i + 2, 128, 191)
                      /\ utf8_valid_from(s, i + 3)
            ELSE IF b >= 240 /\ b <= 244
                 THEN /\ utf8_cont(s, i + 1,
                                   IF b = 240 THEN 144 ELSE 128,
                                   IF b = 244 THEN 143 ELSE 191)
                      /\ utf8_cont(s, i + 2, 128, 191)
                      /\ utf8_cont(s, i + 3, 128, 191)
                      /\ utf8_valid_from(s, i + 4)
            ELSE FALSE

\* String: a u32 length, that many bytes, and String::from_utf8 on them.
String_deserialize(buf) ==
    LET l == u32_deserialize(buf)
    IN IF ~l.ok THEN l
       ELSE IF u32_exceeds(l.val[1], Len(l.rest))
            THEN Err("UnexpectedLengthOfInput")
       ELSE LET r == read_exact(l.rest, u32_as_int(l.val[1]))
            IN IF ~r.ok THEN r
               ELSE IF ~utf8_valid_from(r.val[1], 1) THEN Err("InvalidUtf8")
               ELSE r

\* The loop of Vec<T>::deserialize_reader: n (a u32) elements read one after
\* the other from buf, stopping at the first that cannot be read; k elements
\* have been read into acc so far.
RECURSIVE Vec_i32_elements(_, _, _, _)
Vec_i32_elements(buf, n, k, acc) ==
    IF u32_of_int(k) = n THEN Ok(acc, SubSeq(buf, 4 * k + 1, Len(buf)))
    ELSE IF Len(buf) < 4 * k + 4 THEN Err("UnexpectedLengthOfInput")
    ELSE Vec_i32_elements(buf, n, k + 1,
             Append(acc, i32_from_le_bytes(SubSeq(buf, 4 * k + 1, 4 * k + 4))))

\* Vec<i32>: a u32 length, then the elements.
Vec_i32_deserialize(buf) ==
    LET l == u32_deserialize(buf)
    IN IF ~l.ok THEN l ELSE Vec_i32_elements(l.rest, l.val[1], 0, <<>>)

\* derive(BorshDeserialize) on TestCase0: the fields in declaration order.
TestCase0_deserialize(buf) ==
    LET n == String_deserialize(buf)
    IN IF ~n.ok THEN n
       ELSE LET a == u128_deserialize(n.rest)
            IN IF ~a.ok THEN a
               ELSE LET p == f64_deserialize(a.rest)
                    IN IF ~p.ok THEN p
                       ELSE LET d == Vec_i32_deserialize(p.rest)
                            IN IF ~d.ok THEN d
                               ELSE Ok([name |-> n.val[1], age |-> a.val[1],
                                        prob |-> p.val[1], data |-> d.val[1]],
                                       d.rest)

\* ------------------------------------------------------ borsh: the encoder
\* u32::to_le_bytes, from limbs.
u32_to_le_bytes(n) == <<n[1] % 256, n[1] \div 256, n[2] % 256, n[2] \div 256>>

\* i32::to_le_bytes: two's complement (\div rounds down, % is never negative).
i32_to_le_bytes(v) ==
    <<v % 256, (v \div 256) % 256, (v \div 65536) % 256, (v \div 16777216) % 256>>

RECURSIVE limbs_to_le_bytes(_, _)
limbs_to_le_bytes(l, i) ==
    IF i > Len(l) THEN <<>>
    ELSE <<l[i] % 256, l[i] \div 256>> \o limbs_to_le_bytes(l, i + 1)

RECURSIVE limbs_to_be_bytes(_, _)
limbs_to_be_bytes(l, i) ==
    IF i > Len(l) THEN <<>>
    ELSE limbs_to_be_bytes(l, i + 1) \o <<l[i] \div 256, l[i] % 256>>

\* The same integer written most significant byte first.
u128_to_be_bytes(x) == limbs_to_be_bytes(x, 1)

\* u128::to_le_bytes.
u128_to_le_bytes(x) == limbs_to_le_bytes(x, 1)

\* f64::to_bits().to_le_bytes().
f64_to_le_bytes(x) == limbs_to_le_bytes(x, 1)

String_serialize(s) == u32_to_le_bytes(u32_of_int(Len(s))) \o s

RECURSIVE Vec_i32_serialize_from(_, _)
Vec_i32_serialize_from(d, i) ==
    IF i > Len(d) THEN <<>>
    ELSE i32_to_le_bytes(d[i]) \o Vec_i32_serialize_from(d, i + 1)

Vec_i32_serialize(d) ==
    u32_to_le_bytes(u32_of_int(Len(d))) \o Vec_i32_serialize_from(d, 1)

\* derive(BorshSerialize) on TestCase0: the fields in declaration order; the
\* f64 writer refuses a NaN.
TestCase0_serialize(v) ==
    IF f64_is_nan(v.prob) THEN Err("NaN")
    ELSE Ok(String_serialize(v.name) \o u128_to_le_bytes(v.age)
                \o f64_to_le_bytes(v.prob) \o Vec_i32_serialize(v.data),
            <<>>)

\* borsh::to_vec starts from Vec::with_capacity(DEFAULT_SERIALIZER_CAPACITY).
DEFAULT_SERIALIZER_CAPACITY == 1024


\* borsh::to_vec: the bytes written into the fresh Vec, or the writer's error.
to_vec(v) == TestCase0_serialize(v)

\* ------------------------------------------------------------ the callers
\* Encodings the codec under test can hand in: the canonical value and values
\* that differ from it in one field.
Variants ==
    LET c == TestCase0_canonical
    IN {c}
       \cup {[c EXCEPT !.name = n] :
                n \in {<<>>, <<99>>, <<99, 99, 99, 99, 100>>, <<195, 169>>,
                       <<99, 99, 99, 99, 99, 99>>}}
       \cup {[c EXCEPT !.age = a] :
                a \in {U128_ZERO, [c.age EXCEPT ![1] = @ + 1],
                       [c.age EXCEPT ![8] = 1],
                       [k \in 1..8 |-> 65535]}}
       \cup {[c EXCEPT !.prob = p] :
                p \in {<<0, 0, 0, 0>>, <<0, 0, 0, 32768>>,
                       [c.prob EXCEPT ![1] = @ + 1],
                       [c.prob EXCEPT ![4] = @ + 32768],
                       <<0, 0, 0, 32752>>}}
       \cup {[c EXCEPT !.data = d] :
                d \in {<<>>, <<31>>, <<69, 31>>, <<31, 69, 0>>, <<31, -69>>,
                       <<-2147483647 - 1, 2147483647>>}}

\* The borsh encoding of the canonical value, byte for byte: the name's
\* length and bytes, age (16 bytes), prob (8 bytes), data's length and
\* elements, every integer least significant byte first.
CanonicalEncoding ==
    <<5, 0, 0, 0, 99, 99, 99, 99, 99,
      70, 42, 254, 7, 187, 197, 130, 7, 0, 0, 0, 0, 0, 0, 0, 0,
      20, 174, 71, 225, 122, 20, 230, 63,
      2, 0, 0, 0, 31, 0, 0, 0, 69, 0, 0, 0>>

ValidEncodings == {CanonicalEncoding} \cup {to_vec(v).val[1] : v \in Variants}

\* Strict prefixes of valid encodings.
Truncated ==
    {SubSeq(e, 1, n) : e \in {CanonicalEncoding}, n \in 0..(Len(CanonicalEncoding) - 1)}
    \cup UNION {{SubSeq(e, 1, Len(e) - k) : k \in {1, 4, 5}} : e \in ValidEncodings}

TrailBytes == {0, 255}

\* A valid encoding followed by 1..MaxTrail extra bytes.
Trailing ==
    UNION {{e \o t : t \in [1..n -> TrailBytes]} :
              e \in {CanonicalEncoding}, n \in 1..MaxTrail}
    \cup {e \o <<0>> : e \in ValidEncodings}

SampleBytes == {0, 1, 127, 128, 255}

\* Where the fields of the canonical encoding lie (1-based, inclusive).
NameLenAt == 1..4
NameAt == 5..9
AgeAt == 10..25
ProbAt == 26..33
DataLenAt == 34..37
DataAt == 38..45

\* The canonical encoding with one byte replaced.
Substituted(positions) ==
    {[CanonicalEncoding EXCEPT ![p] = b] : p \in positions, b \in SampleBytes}
        \ {CanonicalEncoding}

\* The canonical encoding with prob replaced by a NaN bit pattern (exponent
\* 0x7FF, mantissa not zero), quiet or signalling, either sign.
WithNaN ==
    {[CanonicalEncoding EXCEPT ![33] = hi, ![32] = lo] :
        hi \in {127, 255}, lo \in {240, 248}}

\* Structurally invalid without being truncated or extended: a length prefix
\* that disagrees with the bytes that follow, a name that is not UTF-8, a NaN.
Malformed ==
    Substituted(NameLenAt) \cup Substituted(DataLenAt)
        \cup {[CanonicalEncoding EXCEPT ![p] = b] : p \in NameAt, b \in {128, 255}}
        \cup WithNaN

Inputs ==
    ValidEncodings \cup Truncated \cup Trailing \cup Malformed
        \cup Substituted(1..Len(CanonicalEncoding))

\* A few inputs of each kind, for the runs with several calls.
FewInputs ==
    {CanonicalEncoding,
     SubSeq(CanonicalEncoding, 1, 44),
     CanonicalEncoding \o <<0>>,
     to_vec([TestCase0_canonical EXCEPT !.data = <<31>>]).val[1],
     <<>>}

FewIds == {0, 1, 255}

\* TestCase0_deserialize of every input a caller passes, computed once.
Deserialized == [v \in Inputs \cup FewInputs |-> TestCase0_deserialize(v)]

\* BorshDeserialize::deserialize on a slice.
deserialize(v) ==
    IF v \in DOMAIN Deserialized THEN Deserialized[v]
    ELSE TestCase0_deserialize(v)

\* from_slice without its last test: the value, whatever bytes are left.
from_slice_lenient(v) == deserialize(v)

\* borsh::from_slice: deserialize, then "Not all bytes read" unless the slice
\* is used up.
from_slice(v) ==
    LET r == deserialize(v)
    IN IF ~r.ok THEN r
       ELSE IF r.rest # <<>> THEN Err("NotAllBytesRead")
       ELSE r

\* ------------------------------------------------------------------ state
Threads == 1..NThreads
Addrs == 1..MaxAddr
NULL == 0

VARIABLES
    pc,        \* per thread: where its call stands
    id,        \* per thread: the id argument
    input,     \* per thread: the input slice (from_raw_parts, lib.rs:17)
    decoded,   \* per thread: run_case's `input: T`, <<>> before it exists
    out,       \* per thread: the Vec<u8> `out`: <<[ptr, len, cap]>> or <<>>
    slot,      \* per thread: the caller's *output and *output_len
    pre,       \* per thread: what the slots held when the call began
    heap,      \* live allocations of output buffers: address -> block
    crashed,   \* <<>>, or <<[by, kind]>> once a panic has aborted the process
    seen       \* <<>>, or <<the one finished call the driver has noted>>

vars == <<pc, id, input, decoded, out, slot, pre, heap, crashed, seen>>

locals == <<id, input, decoded, out, slot, pre>>

NoSlot == [ptr |-> NULL, len |-> 0]

\* What the caller's out-parameters may hold before the first call.
PreSlots == {NoSlot, [ptr |-> NULL, len |-> 7]}

Init ==
    /\ pc = [t \in Threads |-> "idle"]
    /\ id = [t \in Threads |-> 0]
    /\ input = [t \in Threads |-> <<>>]
    /\ decoded = [t \in Threads |-> <<>>]
    /\ out = [t \in Threads |-> <<>>]
    /\ slot \in [Threads -> PreSlots]
    /\ pre = slot
    /\ heap = <<>>
    /\ crashed = <<>>
    /\ seen = <<>>

Running == crashed = <<>>

\* A panic inside an extern "C" function cannot unwind into the caller: the
\* process aborts, and every thread with it.
panic(t, kind) ==
    /\ crashed' = <<[by |-> t, kind |-> kind]>>
    /\ UNCHANGED <<pc, locals, heap, seen>>

\* The allocator hands out an address that is in use.
alloc_in_use(h) == Addrs

\* The allocator: any address not in use.
alloc(h) == Addrs \ DOMAIN h

\* lib.rs:9-17, a caller enters roundtrip_test_case on thread t with one of
\* `calls` (pairs of id and input bytes); the slice is borrowed, not copied.
\* A call is only started while an address is left for its output.
roundtrip_test_case(t, calls) ==
    /\ Running
    /\ pc[t] = "idle"
    /\ Cardinality(DOMAIN heap) + Cardinality({u \in Threads : pc[u] # "idle"})
          < MaxAddr
    /\ \E c \in calls :
          /\ id' = [id EXCEPT ![t] = c[1]]
          /\ input' = [input EXCEPT ![t] = c[2]]
    /\ pre' = [pre EXCEPT ![t] = slot[t]]
    /\ decoded' = [decoded EXCEPT ![t] = <<>>]
    /\ out' = [out EXCEPT ![t] = <<>>]
    /\ pc' = [pc EXCEPT ![t] = "run_test"]
    /\ UNCHANGED <<slot, heap, crashed, seen>>

\* run_test with a fallback arm: every id runs case 0.
run_test_fallback(t) ==
    /\ Running
    /\ pc[t] = "run_test"
    /\ pc' = [pc EXCEPT ![t] = "from_slice"]
    /\ UNCHANGED <<locals, heap, crashed, seen>>

\* lib.rs:33-43, run_test: id 0 goes on to run_case with the canonical
\* value, every other id panics "unknown id".
run_test(t) ==
    /\ Running
    /\ pc[t] = "run_test"
    /\ IF id[t] = 0
       THEN /\ pc' = [pc EXCEPT ![t] = "from_slice"]
            /\ UNCHANGED <<locals, heap, crashed, seen>>
       ELSE panic(t, "UnsupportedCase")

\* run_case's first line reporting a decode error as an empty output.
run_case_from_slice_zero_fill(t) ==
    /\ Running
    /\ pc[t] = "from_slice"
    /\ LET r == from_slice(input[t])
       IN IF r.ok
          THEN /\ decoded' = [decoded EXCEPT ![t] = r.val]
               /\ pc' = [pc EXCEPT ![t] = "assert_eq"]
               /\ UNCHANGED <<id, input, out, slot, pre, heap, crashed, seen>>
          ELSE /\ slot' = [slot EXCEPT ![t] = NoSlot]
               /\ pc' = [pc EXCEPT ![t] = "returned"]
               /\ UNCHANGED <<id, input, decoded, out, pre, heap, crashed, seen>>

\* lib.rs:46, run_case: borsh::from_slice(input).unwrap().
run_case_from_slice(t) ==
    /\ Running
    /\ pc[t] = "from_slice"
    /\ LET r == from_slice(input[t])
       IN IF r.ok
          THEN /\ decoded' = [decoded EXCEPT ![t] = r.val]
               /\ pc' = [pc EXCEPT ![t] = "assert_eq"]
               /\ UNCHANGED <<id, input, out, slot, pre, heap, crashed, seen>>
          ELSE panic(t, "DecodeError")

\* lib.rs:48, run_case: assert_eq!(input, output).
run_case_assert_eq(t) ==
    /\ Running
    /\ pc[t] = "assert_eq"
    /\ IF TestCase0_eq(decoded[t][1], TestCase0_canonical)
       THEN /\ pc' = [pc EXCEPT ![t] = "to_vec"]
            /\ UNCHANGED <<locals, heap, crashed, seen>>
       ELSE panic(t, "RoundTripMismatch")

\* A writer that appends to what the last buffer written holds, as a buffer
\* kept from call to call and never cleared would.
block_appending(bytes) ==
    [bytes |-> (IF DOMAIN heap = {} THEN <<>>
                ELSE heap[CHOOSE a \in DOMAIN heap : TRUE].bytes) \o bytes,
     cap |-> DEFAULT_SERIALIZER_CAPACITY, owner |-> "vec"]

\* The Vec to_vec returns: `bytes` in a fresh buffer of the initial capacity.
block(bytes) ==
    [bytes |-> bytes, cap |-> DEFAULT_SERIALIZER_CAPACITY, owner |-> "vec"]

\* lib.rs:50-52, run_case: borsh::to_vec(&output).unwrap(), returned to
\* run_test and on to roundtrip_test_case (lib.rs:18); the decoded and the
\* canonical value are dropped.  No registered value outgrows the initial
\* capacity, so the buffer is never reallocated.
run_case_to_vec(t) ==
    /\ Running
    /\ pc[t] = "to_vec"
    /\ LET r == to_vec(TestCase0_canonical)
       IN IF r.ok
          THEN \E a \in alloc(heap) :
                  /\ heap' = [x \in DOMAIN heap \cup {a} |->
                                 IF x = a THEN block(r.val[1]) ELSE heap[x]]
                  /\ out' = [out EXCEPT ![t] =
                                <<[ptr |-> a, len |-> Len(block(r.val[1]).bytes),
                                   cap |-> block(r.val[1]).cap]>>]
                  /\ decoded' = [decoded EXCEPT ![t] = <<>>]
                  /\ pc' = [pc EXCEPT ![t] = "write_ptr"]
                  /\ UNCHANGED <<id, input, slot, pre, crashed, seen>>
          ELSE panic(t, "EncodeError")

\* lib.rs:19, *output = out.as_mut_ptr().
write_output(t) ==
    /\ Running
    /\ pc[t] = "write_ptr"
    /\ slot' = [slot EXCEPT ![t].ptr = out[t][1].ptr]
    /\ pc' = [pc EXCEPT ![t] = "write_len"]
    /\ UNCHANGED <<id, input, decoded, out, pre, heap, crashed, seen>>

\* lib.rs:20, *output_len = out.len().
write_output_len(t) ==
    /\ Running
    /\ pc[t] = "write_len"
    /\ slot' = [slot EXCEPT ![t].len = out[t][1].len]
    /\ pc' = [pc EXCEPT ![t] = "forget"]
    /\ UNCHANGED <<id, input, decoded, out, pre, heap, crashed, seen>>

\* `out` going out of scope instead: Vec's drop frees the buffer.
drop_out(t) ==
    /\ Running
    /\ pc[t] = "forget"
    /\ heap' = [x \in DOMAIN heap \ {out[t][1].ptr} |-> heap[x]]
    /\ out' = [out EXCEPT ![t] = <<>>]
    /\ pc' = [pc EXCEPT ![t] = "returned"]
    /\ UNCHANGED <<id, input, decoded, slot, pre, crashed, seen>>

\* lib.rs:21-23, std::mem::forget(out) and the return: the Vec's destructor
\* never runs, the buffer stays allocated and only the caller knows of it.
mem_forget(t) ==
    /\ Running
    /\ pc[t] = "forget"
    /\ heap' = [heap EXCEPT ![out[t][1].ptr].owner = "caller"]
    /\ out' = [out EXCEPT ![t] = <<>>]
    /\ pc' = [pc EXCEPT ![t] = "returned"]
    /\ UNCHANGED <<id, input, decoded, slot, pre, crashed, seen>>

\* The steps of one call on thread t, lib.rs:18-22.
step(t) ==
    \/ run_test(t)
    \/ run_case_from_slice(t)
    \/ run_case_assert_eq(t)
    \/ run_case_to_vec(t)
    \/ write_output(t)
    \/ write_output_len(t)
    \/ mem_forget(t)

\* ------------------------------------------------------ what a caller sees
\* The bytes the caller reads through its slots.
caller_view(t) ==
    IF slot[t].ptr \in DOMAIN heap /\ slot[t].len <= Len(heap[slot[t].ptr].bytes)
    THEN SubSeq(heap[slot[t].ptr].bytes, 1, slot[t].len)
    ELSE <<-1>>

\* Thread t's call has returned, or has raised the fatal condition.
Finished(t) ==
    \/ pc[t] = "returned"
    \/ ~Running /\ crashed[1].by = t

\* How thread t's call ended: the bytes returned, or the fatal condition.
outcome(t) ==
    IF pc[t] = "returned"
    THEN [kind |-> "Returned", bytes |-> caller_view(t)]
    ELSE [kind |-> crashed[1].kind, bytes |-> <<>>]

\* The caller takes the result and is ready for its next call.
caller_continues(t) ==
    /\ Running
    /\ pc[t] = "returned"
    /\ pc' = [pc EXCEPT ![t] = "idle"]
    /\ UNCHANGED <<locals, heap, crashed, seen>>

\* The driver notes one finished call: its arguments and how it ended.
driver_notes(t) ==
    /\ seen = <<>>
    /\ Finished(t)
    /\ seen' = <<[id |-> id[t], input |-> input[t], outcome |-> outcome(t),
                   ptr |-> slot[t].ptr]>>
    /\ UNCHANGED <<pc, locals, heap, crashed>>

\* The driver starts a new process after the old one has aborted; the new
\* process's memory is its own.
driver_restarts ==
    /\ ~Running
    /\ pc' = [t \in Threads |-> "idle"]
    /\ decoded' = [t \in Threads |-> <<>>]
    /\ out' = [t \in Threads |-> <<>>]
    /\ slot' = [t \in Threads |-> NoSlot]
    /\ pre' = [t \in Threads |-> NoSlot]
    /\ heap' = <<>>
    /\ crashed' = <<>>
    /\ UNCHANGED <<id, input, seen>>

\* --------------------------------------------------------- specifications
\* One call per process, on one thread: every input for id 0, and every
\* other id with a few inputs.
SpecCalls == ({0} \X Inputs) \cup ((U8 \ {0}) \X FewInputs)

Next == roundtrip_test_case(1, SpecCalls) \/ step(1)

Spec == Init /\ [][Next]_vars

\* Call after call on one thread, and process after process.
NextRepeat ==
    \/ roundtrip_test_case(1, FewIds \X FewInputs)
    \/ step(1)
    \/ caller_continues(1)
    \/ driver_notes(1)
    \/ driver_restarts

\* The same, with the thread running on: a call that can take a step takes it.
FairSpec == Init /\ [][Next]_vars /\ WF_vars(step(1))

SpecRepeat == Init /\ [][NextRepeat]_vars

\* One call per thread, all threads at once.
NextConc ==
    \E t \in Threads : roundtrip_test_case(t, FewIds \X FewInputs) \/ step(t)

SpecConc == Init /\ [][NextConc]_vars


\* ----------------------------------------------------------------- claims
Started(t) == pc[t] # "idle"

\* Thread t's call has ended in the fatal condition `kind`.
Fatal(t, kind) == ~Running /\ crashed[1] = [by |-> t, kind |-> kind]

\* The call on thread t has written nothing the caller can see.
NothingHandedOver(t) == out[t] = <<>> /\ slot[t] = pre[t]

C1_Called(t) == Started(t) /\ id[t] = 0 /\ input[t] = CanonicalEncoding

C1_Safe ==
    \A t \in Threads :
        C1_Called(t) =>
            /\ Running
            /\ pc[t] = "returned" =>
                  LET r == from_slice(caller_view(t))
                  IN r.ok /\ r.val[1] = TestCase0_canonical

\* C1. Round trip: a call with id 0 and the encoding of the canonical value
\* raises no fatal condition, runs on until it returns, and the bytes it
\* returns decode, as a TestCase0, to the canonical value.
C1_RoundTrip ==
    /\ []C1_Safe
    /\ \A t \in Threads : C1_Called(t) ~> pc[t] = "returned"

C1_Witness ==
    \E t \in Threads :
        pc[t] = "returned" /\ id[t] = 0 /\ input[t] = CanonicalEncoding

\* The input of thread t decodes, and to a value that is not the canonical one.
DecodesToAnother(t) ==
    LET r == from_slice(input[t])
    IN r.ok /\ r.val[1] # TestCase0_canonical

C2_Called(t) == Started(t) /\ id[t] = 0 /\ DecodesToAnother(t)

C2_Safe ==
    \A t \in Threads :
        C2_Called(t) =>
            /\ pc[t] \in {"run_test", "from_slice", "assert_eq"}
            /\ NothingHandedOver(t)
            /\ heap = <<>>
            /\ ~Running => Fatal(t, "RoundTripMismatch")

\* C2. Mismatch detection: a call with id 0 whose input decodes to a value
\* other than the canonical one never gets past the comparison, never returns
\* or hands anything over, and the only way it ends is the fatal mismatch.
C2_MismatchDetected ==
    /\ []C2_Safe
    /\ \A t \in Threads : C2_Called(t) ~> Fatal(t, "RoundTripMismatch")

\* A mismatch in the last field alone has been raised.
C2_Witness ==
    \E t \in Threads :
        /\ Fatal(t, "RoundTripMismatch")
        /\ id[t] = 0
        /\ decoded[t] # <<>>
        /\ decoded[t][1] = [TestCase0_canonical EXCEPT !.data = <<31, -69>>]

C3_Called(t) == Started(t) /\ id[t] # 0

C3_Safe ==
    \A t \in Threads :
        C3_Called(t) =>
            /\ pc[t] = "run_test"
            /\ decoded[t] = <<>>
            /\ NothingHandedOver(t)
            /\ heap = <<>>
            /\ ~Running => Fatal(t, "UnsupportedCase")

\* C3. Unknown id: a call with any id but 0 ends in the fatal unsupported-case
\* condition whatever its input; it decodes nothing, allocates nothing and
\* hands nothing over.
C3_UnknownIdRejected ==
    /\ []C3_Safe
    /\ \A t \in Threads : C3_Called(t) ~> Fatal(t, "UnsupportedCase")

\* Id 255 has been rejected on an input that id 0 accepts.
C3_Witness ==
    \E t \in Threads :
        /\ Fatal(t, "UnsupportedCase")
        /\ id[t] = 255
        /\ input[t] = CanonicalEncoding

C4_Called(t) ==
    /\ Started(t)
    /\ id[t] = 0
    /\ input[t] \in Truncated \cup Trailing \cup Malformed

C4_Safe ==
    \A t \in Threads :
        C4_Called(t) =>
            /\ pc[t] \in {"run_test", "from_slice"}
            /\ decoded[t] = <<>>
            /\ NothingHandedOver(t)
            /\ heap = <<>>
            /\ ~Running => Fatal(t, "DecodeError")

\* C4. Decode robustness: a call with id 0 whose input is a strict prefix of a
\* valid encoding, a valid encoding with extra bytes after it, or malformed
\* (a wrong length prefix, a name that is not UTF-8, a NaN) ends in the fatal
\* decode-error condition; nothing is decoded, compared or handed over.
C4_DecodeRobust ==
    /\ []C4_Safe
    /\ \A t \in Threads : C4_Called(t) ~> Fatal(t, "DecodeError")

\* The canonical encoding with one extra byte has been refused.
C4_Witness ==
    \E t \in Threads :
        /\ Fatal(t, "DecodeError")
        /\ id[t] = 0
        /\ input[t] = CanonicalEncoding \o <<0>>

\* C5. When a call has returned, *output_len is the length of the canonical
\* encoding, *output is not null and points to an allocation that is still
\* live, belongs to the caller (no destructor of this library will free it),
\* is at least that long and begins with the canonical encoding.
C5_OutputDescribed ==
    \A t \in Threads :
        pc[t] = "returned" =>
            /\ slot[t].len = Len(CanonicalEncoding)
            /\ slot[t].ptr # NULL
            /\ slot[t].ptr \in DOMAIN heap
            /\ heap[slot[t].ptr].owner = "caller"
            /\ heap[slot[t].ptr].cap >= slot[t].len
            /\ Len(heap[slot[t].ptr].bytes) >= slot[t].len
            /\ SubSeq(heap[slot[t].ptr].bytes, 1, slot[t].len) = CanonicalEncoding

\* A call has returned into slots that held a null pointer and a stale length.
C5_Witness ==
    \E t \in Threads :
        pc[t] = "returned" /\ pre[t] = [ptr |-> NULL, len |-> 7]

\* Buffers handed to a caller.  The library has no entry point that takes one
\* back, so each of them stays allocated for as long as the process lives.
Unreleasable == {a \in DOMAIN heap : heap[a].owner = "caller"}

\* C6. The buffers handed over can be given back, so the number of buffers
\* that are handed over and cannot be released does not grow from call to
\* call.
C6_NoGrowingLeak ==
    [][Cardinality(Unreleasable') <= Cardinality(Unreleasable)]_vars

\* C7. When a call has returned, the length reported is the size of the
\* allocation handed over, so that pointer and length suffice to release it.
C7_LengthIsAllocationSize ==
    \A t \in Threads :
        (pc[t] = "returned" /\ slot[t].ptr \in DOMAIN heap) =>
            slot[t].len = heap[slot[t].ptr].cap

\* run_test(i, inp) on its own: the fatal condition, or the bytes returned.
run_test_alone(i, inp) ==
    IF i # 0 THEN [kind |-> "UnsupportedCase", bytes |-> <<>>]
    ELSE LET r == from_slice(inp)
         IN IF ~r.ok THEN [kind |-> "DecodeError", bytes |-> <<>>]
            ELSE IF ~TestCase0_eq(r.val[1], TestCase0_canonical)
                 THEN [kind |-> "RoundTripMismatch", bytes |-> <<>>]
            ELSE [kind |-> "Returned", bytes |-> CanonicalEncoding]

\* The address of the buffer thread t's call has made, if it has: in its Vec,
\* or in the caller's slot once the call has returned.
BufferOf(t) ==
    IF out[t] # <<>> THEN {out[t][1].ptr}
    ELSE IF pc[t] = "returned" THEN {slot[t].ptr}
    ELSE {}

\* C8 as stated. Every call ends as it would alone; in particular a call that
\* returns its bytes when run alone is never ended by a fatal condition, however
\* the calls on the other threads end.
C8_EveryCallAsAlone ==
    ~Running =>
        \A t \in Threads :
            (Started(t) /\ pc[t] # "returned") =>
                run_test_alone(id[t], input[t]).kind # "Returned"

\* C8, amended. Every call that returns, or raises a fatal condition itself,
\* ends as it would alone; the buffers of different calls are different
\* allocations, each still live and holding what its call wrote.
C8_FinishedCallsAsAlone ==
    /\ \A t \in Threads :
          Finished(t) => outcome(t) = run_test_alone(id[t], input[t])
    /\ \A t \in Threads :
          \A a \in BufferOf(t) :
              /\ a \in DOMAIN heap
              /\ heap[a].bytes = CanonicalEncoding
              /\ \A u \in Threads \ {t} : a \notin BufferOf(u)

\* One call has returned its buffer and a call on another thread has then
\* raised its own decode error.
C8_Witness ==
    \E t \in Threads : \E u \in Threads \ {t} :
        pc[t] = "returned" /\ Fatal(u, "DecodeError")

\* C9. Determinism: a finished call with the id and input of a call noted
\* before it, in the same process or a later one, has ended the same way and,
\* if it returned, with the same bytes.
C9_Deterministic ==
    \A t \in Threads :
        (seen # <<>> /\ Finished(t)
             /\ id[t] = seen[1].id /\ input[t] = seen[1].input) =>
            outcome(t) = seen[1].outcome

\* A call has returned a second buffer for the arguments of a noted call.
C9_Witness ==
    \E t \in Threads :
        /\ seen # <<>>
        /\ pc[t] = "returned"
        /\ id[t] = seen[1].id
        /\ input[t] = seen[1].input
        /\ seen[1].outcome.kind = "Returned"
        /\ slot[t].ptr # seen[1].ptr

\* The call on thread t is one that fails: an unknown id, an input that does
\* not decode, or one that decodes to another value.
Fails(t) ==
    \/ id[t] # 0
    \/ ~from_slice(input[t]).ok
    \/ ~TestCase0_eq(from_slice(input[t]).val[1], TestCase0_canonical)

\* C10. The steps come in order: nothing is decoded before the id is resolved,
\* no buffer exists and no slot is written before the re-encoding, the pointer
\* is written before the length, and the buffer is the library's until the
\* last step.  A failing call stops at its fatal condition with both slots as
\* they were and no buffer made.
C10_OrderAndFrame ==
    \A t \in Threads :
        Started(t) =>
            /\ pc[t] = "run_test" => decoded[t] = <<>>
            /\ pc[t] \in {"run_test", "from_slice", "assert_eq", "to_vec"} =>
                  NothingHandedOver(t) /\ heap = <<>>
            /\ pc[t] \in {"write_ptr", "write_len", "forget"} =>
                  /\ out[t] # <<>>
                  /\ heap[out[t][1].ptr].owner = "vec"
                  /\ slot[t].len = IF pc[t] = "forget" THEN out[t][1].len
                                   ELSE pre[t].len
                  /\ slot[t].ptr = IF pc[t] = "write_ptr" THEN pre[t].ptr
                                   ELSE out[t][1].ptr
            /\ Fails(t) =>
                  /\ NothingHandedOver(t)
                  /\ heap = <<>>
                  /\ pc[t] # "returned"

\* A call has failed at the comparison with a stale length in its slot.
C10_Witness ==
    \E t \in Threads :
        /\ Fatal(t, "RoundTripMismatch")
        /\ pre[t] = [ptr |-> NULL, len |-> 7]

====
